---- MODULE Spec2Model ----
(***************************************************************************)
(* Model of the room relay server in src/ws-workshop/server/src/index.ts.  *)
(* Strings of the program are sequences of one-character strings, so that  *)
(* trim/toLowerCase/replace/startsWith are computed character by           *)
(* character.  Every event handler of the server (connection, message,     *)
(* close) is one action; `sent` is the ordered list of the send attempts   *)
(* the last handler made.                                                   *)
(***************************************************************************)
EXTENDS Integers, Sequences, FiniteSets, TLC

\* ------------------------------------------------------------------ bounds
\* Number of transports that connect during a run.
MaxConns == 3
\* Range of values Date.now() may return.
MaxClock == 2
\* Number of events (handshakes, frames, transport failures, closes) in a run.
MaxEvents == 5
\* Length of a room name typed into a client's room form.
MaxDraftLen == 3

Conns == 1..MaxConns

\* ------------------------------------------------------------- JS values
\* JS null / undefined: one-element sequences whose element is not a single
\* character, hence different from every program string.
Null == <<"null">>
Undefined == <<"undefined">>

DEFAULT_ROOM == <<"#", "g", "e", "n", "e", "r", "a", "l">>

\* ------------------------------------------------------- string functions
IsSpace(c) == c \in {" ", "\t", "\n"}

UpperChars == <<"A", "B", "C", "D", "E", "F", "G", "H", "I", "J", "K", "L", "M",
                "N", "O", "P", "Q", "R", "S", "T", "U", "V", "W", "X", "Y", "Z">>
LowerChars == <<"a", "b", "c", "d", "e", "f", "g", "h", "i", "j", "k", "l", "m",
                "n", "o", "p", "q", "r", "s", "t", "u", "v", "w", "x", "y", "z">>

\* The characters that occur in the strings of the model.
Alphabet ==
  {UpperChars[i] : i \in 1..Len(UpperChars)} \cup {LowerChars[i] : i \in 1..Len(LowerChars)}
  \cup {" ", "\t", "\n", "-", "#", "é", "."}

\* String.prototype.toLowerCase on one character.
LowerTable ==
  [c \in Alphabet |->
     IF \E i \in 1..Len(UpperChars) : UpperChars[i] = c
     THEN LowerChars[CHOOSE i \in 1..Len(UpperChars) : UpperChars[i] = c]
     ELSE c]

LowerChar(c) == LowerTable[c]

toLowerCase(s) == [i \in 1..Len(s) |-> LowerChar(s[i])]

RECURSIVE TrimStart(_)
TrimStart(s) ==
  IF s # <<>> /\ IsSpace(Head(s)) THEN TrimStart(Tail(s)) ELSE s

RECURSIVE TrimEnd(_)
TrimEnd(s) ==
  IF s # <<>> /\ IsSpace(s[Len(s)]) THEN TrimEnd(SubSeq(s, 1, Len(s) - 1)) ELSE s

\* String.prototype.trim
trim(s) == TrimEnd(TrimStart(s))

\* replace(/\s+/g, "-"): every maximal run of whitespace becomes one hyphen.
RECURSIVE ReplaceSpaceRuns(_)
ReplaceSpaceRuns(s) ==
  IF s = <<>> THEN <<>>
  ELSE IF IsSpace(Head(s))
       THEN <<"-">> \o ReplaceSpaceRuns(TrimStart(Tail(s)))
       ELSE <<Head(s)>> \o ReplaceSpaceRuns(Tail(s))

\* Variant of the server's normalizeRoomName: keeps the case of the name.
normalizeRoomName_KeepCase(rawRoom) ==
  LET compact == ReplaceSpaceRuns(trim(rawRoom))
  IN  IF compact = <<>> THEN Null
      ELSE IF Head(compact) = "#" THEN compact ELSE <<"#">> \o compact

normalizeRoomName(rawRoom) ==
  LET compact == ReplaceSpaceRuns(toLowerCase(trim(rawRoom)))
  IN  IF compact = <<>> THEN Null
      ELSE IF Head(compact) = "#" THEN compact ELSE <<"#">> \o compact

\* normalizeRoomName of the token client: "" where the server has null.
tokenClient_normalizeRoomName(raw) ==
  LET compact == ReplaceSpaceRuns(toLowerCase(trim(raw)))
  IN  IF compact = <<>> THEN <<>>
      ELSE IF Head(compact) = "#" THEN compact ELSE <<"#">> \o compact

\* normalizeRoomName of the nickname client.
nickClient_normalizeRoomName(raw) ==
  LET compact == ReplaceSpaceRuns(toLowerCase(trim(raw)))
  IN  IF compact = <<>> THEN <<>>
      ELSE IF Head(compact) = "#" THEN compact ELSE <<"#">> \o compact


\* ------------------------------------------------- String.localeCompare
\* Collation weights of the characters the model uses, in the order of the
\* default (root) collation: white space, then punctuation ("-" before "#"),
\* then letters; case and accents only break ties.
PrimaryTable ==
  [c \in Alphabet |->
     LET l == LowerChar(IF c = "é" THEN "e" ELSE c)
     IN  IF IsSpace(c) THEN 1
         ELSE IF c = "-" THEN 2
         ELSE IF c = "#" THEN 3
         ELSE IF \E i \in 1..Len(LowerChars) : LowerChars[i] = l
              THEN 3 + (CHOOSE i \in 1..Len(LowerChars) : LowerChars[i] = l)
              ELSE 30]

PrimaryWeight(c) == PrimaryTable[c]

SecondaryWeight(c) == IF c = "é" THEN 1 ELSE 0

UpperSet == {UpperChars[i] : i \in 1..Len(UpperChars)}

TertiaryWeight(c) == IF c \in UpperSet THEN 1 ELSE 0

RECURSIVE SeqLess(_, _)
SeqLess(x, y) ==
  IF y = <<>> THEN FALSE
  ELSE IF x = <<>> THEN TRUE
  ELSE IF Head(x) # Head(y) THEN Head(x) < Head(y)
  ELSE SeqLess(Tail(x), Tail(y))

\* a.localeCompare(b) < 0
localeCompareLess(a, b) ==
  LET pa == [i \in 1..Len(a) |-> PrimaryWeight(a[i])]
      pb == [i \in 1..Len(b) |-> PrimaryWeight(b[i])]
      sa == [i \in 1..Len(a) |-> SecondaryWeight(a[i])]
      sb == [i \in 1..Len(b) |-> SecondaryWeight(b[i])]
      ta == [i \in 1..Len(a) |-> TertiaryWeight(a[i])]
      tb == [i \in 1..Len(b) |-> TertiaryWeight(b[i])]
  IN  \/ SeqLess(pa, pb)
      \/ pa = pb /\ SeqLess(sa, sb)
      \/ pa = pb /\ sa = sb /\ SeqLess(ta, tb)

\* Array.prototype.sort((a, b) => a.localeCompare(b)): stable.
RECURSIVE InsertSorted(_, _)
InsertSorted(sorted, x) ==
  IF sorted = <<>> THEN <<x>>
  ELSE IF localeCompareLess(x, Head(sorted))
       THEN <<x>> \o sorted
       ELSE <<Head(sorted)>> \o InsertSorted(Tail(sorted), x)

RECURSIVE sortLocale(_)
sortLocale(list) ==
  IF list = <<>> THEN <<>>
  ELSE InsertSorted(sortLocale(SubSeq(list, 1, Len(list) - 1)), list[Len(list)])

\* ------------------------------------------- insertion-ordered JS Set / Map
Range(s) == {s[i] : i \in 1..Len(s)}
SetAdd(s, x) == IF x \in Range(s) THEN s ELSE Append(s, x)
SetDelete(s, x) == SelectSeq(s, LAMBDA y : y # x)

RECURSIVE SetToSeq(_)
SetToSeq(S) ==
  IF S = {} THEN <<>>
  ELSE LET x == CHOOSE y \in S : TRUE IN <<x>> \o SetToSeq(S \ {x})

MapSet(m, k, v) == [x \in DOMAIN m \cup {k} |-> IF x = k THEN v ELSE m[x]]
MapDelete(m, k) == [x \in DOMAIN m \ {k} |-> m[x]]


\* ---------------------------------------------------------------- inputs
\* Display names /login can put in a token (validUsers).
Raphael == <<"R", "a", "p", "h", "a", "e", "l">>
Beatrice == <<"B", "é", "a", "t", "r", "i", "c", "e">>
Users == {Raphael, Beatrice}

\* The token query parameter: absent, or a JWT that verifies or not and
\* whose payload carries a username or not.
Tokens ==
  {[present |-> FALSE, verifies |-> FALSE, username |-> Undefined],
   [present |-> TRUE, verifies |-> FALSE, username |-> Raphael],
   [present |-> TRUE, verifies |-> TRUE, username |-> Undefined]}
  \cup {[present |-> TRUE, verifies |-> TRUE, username |-> u] : u \in Users}

\* Raw room names a client may put in join-room / leave-room.
RawNewRoom == <<"n", "e", "w", " ", "r", "o", "o", "m">>
RawNewRoomSpaced == <<" ", "N", "e", "w", " ", " ", "R", "o", "o", "m">>
RawGeneral == <<"G", "e", "n", "e", "r", "a", "l">>
RawGames == <<"#", "g", "a", "m", "e", "s">>
RawRooms == {<<" ">>, RawNewRoom, RawNewRoomSpaced, RawGeneral, RawGames}

NewRoom == <<"#", "n", "e", "w", "-", "r", "o", "o", "m">>
Games == <<"#", "g", "a", "m", "e", "s">>

\* Raw chat texts.
Texts == {<<" ">>, <<" ", "h", "i", " ">>}

\* An inbound frame: what JSON.parse makes of it ("garbage" throws, "null"
\* is a falsy JSON value, "object" is an object) and the fields of the
\* object; a field that is absent or not a string is Undefined.
Frame(j, t, r, x, n) == [json |-> j, type |-> t, room |-> r, text |-> x, nick |-> n]

Frames ==
  {Frame("garbage", "", Undefined, Undefined, Undefined),
   Frame("null", "", Undefined, Undefined, Undefined),
   Frame("object", "", Undefined, Undefined, Undefined),
   Frame("object", "typing", Undefined, Undefined, Undefined),
   Frame("object", "set-nick", Undefined, Undefined, Raphael),
   Frame("object", "leave", Undefined, Undefined, Undefined)}
  \cup {Frame("object", t, r, Undefined, Undefined) :
          t \in {"join-room", "leave-room"}, r \in RawRooms \cup {Undefined}}
  \cup {Frame("object", "chat", Undefined, x, Undefined) : x \in Texts \cup {Undefined}}
  \cup {Frame("object", "chat", Undefined, <<" ", "h", "i", " ">>, Raphael)}

NoFrame == Frame("none", "", Undefined, Undefined, Undefined)
NoSocket == 0

\* ----------------------------------------------------------------- state
VARIABLES
  rooms,       \* Map room name -> Set of sockets (insertion order)
  clients,     \* wss.clients (insertion order)
  readyState,  \* ws.readyState of each transport; "NONE" before it connects
  username,    \* socket.username
  room,        \* socket.room
  attached,    \* the message and close listeners are registered
  closeCode,   \* code passed to ws.close by the server, 0 if none
  crashed,     \* a listener threw: the process is gone
  lastEvent,   \* the event whose handler ran last
  sent,        \* the ws.send calls of that handler, in order
  events,      \* number of events so far
  submission   \* a room form of a client: the draft typed and what became of it

vars == <<rooms, clients, readyState, username, room, attached, closeCode,
          crashed, lastEvent, sent, events, submission>>

\* The mutable state a handler works on, threaded through its calls.
Current ==
  [rooms |-> rooms, clients |-> clients, readyState |-> readyState,
   username |-> username, room |-> room, out |-> <<>>, threw |-> FALSE]

\* ------------------------------------------------------ server functions
System(text) == [type |-> "system", text |-> text]

sendToClient(st, ws, message) ==
  IF st.readyState[ws] = "OPEN"
  THEN [st EXCEPT !.out = Append(@, [to |-> ws, msg |-> message])]
  ELSE st

\* parseClientMessage: null when JSON.parse throws, else the parsed value.
JsonNull == Frame("null", "", Undefined, Undefined, Undefined)

parseClientMessage(raw) ==
  IF raw.json = "garbage" THEN JsonNull ELSE raw

\* Variant of ensureRoom: registers a new empty set even when the room exists.
ensureRoom_AlwaysCreate(st, r) ==
  [st EXCEPT !.rooms = MapSet(@, r, <<>>)]

ensureRoom(st, r) ==
  IF r \in DOMAIN st.rooms THEN st
  ELSE [st EXCEPT !.rooms = MapSet(@, r, <<>>)]

\* Variants of removeRoomIfEmpty: without the default-room guard; never deleting.
removeRoomIfEmpty_NoGuard(st, r) ==
  IF r \in DOMAIN st.rooms /\ Len(st.rooms[r]) = 0
  THEN [st EXCEPT !.rooms = MapDelete(@, r)]
  ELSE st

removeRoomIfEmpty_Never(st, r) == st

removeRoomIfEmpty(st, r) ==
  IF r = DEFAULT_ROOM THEN st
  ELSE IF r \in DOMAIN st.rooms /\ Len(st.rooms[r]) = 0
       THEN [st EXCEPT !.rooms = MapDelete(@, r)]
       ELSE st

\* Variant of getRoomsList: unshifts the default room without looking for it.
getRoomsList_AlwaysUnshift(st) ==
  <<DEFAULT_ROOM>> \o sortLocale(SetToSeq(DOMAIN st.rooms))

getRoomsList(st) ==
  LET list == sortLocale(SetToSeq(DOMAIN st.rooms))
  IN  IF DEFAULT_ROOM \notin Range(list) THEN <<DEFAULT_ROOM>> \o list ELSE list

\* forEach over an insertion-ordered set of sockets: send to the open ones
\* other than exclude.
\* Variant of the forEach loops: sends without looking at readyState.
RECURSIVE SendEach_NoReadyCheck(_, _, _, _)
SendEach_NoReadyCheck(st, members, message, exclude) ==
  IF members = <<>> THEN st
  ELSE LET member == Head(members)
           st1 == IF member # exclude
                  THEN [st EXCEPT !.out = Append(@, [to |-> member, msg |-> message])]
                  ELSE st
       IN  SendEach_NoReadyCheck(st1, Tail(members), message, exclude)

RECURSIVE SendEach(_, _, _, _)
SendEach(st, members, message, exclude) ==
  IF members = <<>> THEN st
  ELSE LET member == Head(members)
           st1 == IF member # exclude /\ st.readyState[member] = "OPEN"
                  THEN [st EXCEPT !.out = Append(@, [to |-> member, msg |-> message])]
                  ELSE st
       IN  SendEach(st1, Tail(members), message, exclude)

\* Variant of broadcastRoomList: nobody is told.
broadcastRoomList_Skip(st) == st

broadcastRoomList(st) ==
  LET payload == [type |-> "room-list", rooms |-> getRoomsList(st)]
  IN  SendEach(st, st.clients, payload, NoSocket)

\* Variants of broadcastToRoom: fans out to every client of the server; forgets
\* the excluded socket.
broadcastToRoom_AllClients(st, r, message, exclude) ==
  IF r \notin DOMAIN st.rooms THEN st
  ELSE SendEach(st, st.clients, message, exclude)

broadcastToRoom_NoExclude(st, r, message, exclude) ==
  IF r \notin DOMAIN st.rooms THEN st
  ELSE SendEach(st, st.rooms[r], message, NoSocket)

broadcastToRoom(st, r, message, exclude) ==
  IF r \notin DOMAIN st.rooms THEN st
  ELSE SendEach(st, st.rooms[r], message, exclude)

Truthy(str) == str # Undefined /\ str # Null /\ str # <<>>

\* Variant of getUsersForRoom: takes the names of every client of the server.
getUsersForRoom_AllClients(st, r) ==
  IF r \notin DOMAIN st.rooms THEN <<>>
  ELSE LET members == st.clients
           names == [i \in 1..Len(members) |-> st.username[members[i]]]
       IN  sortLocale(SelectSeq(names, Truthy))

\* Variant of getUsersForRoom: each identity is listed once.
getUsersForRoom_Distinct(st, r) ==
  IF r \notin DOMAIN st.rooms THEN <<>>
  ELSE LET members == st.rooms[r]
           names == [i \in 1..Len(members) |-> st.username[members[i]]]
       IN  sortLocale(SetToSeq(Range(SelectSeq(names, Truthy))))

getUsersForRoom(st, r) ==
  IF r \notin DOMAIN st.rooms THEN <<>>
  ELSE LET members == st.rooms[r]
           names == [i \in 1..Len(members) |-> st.username[members[i]]]
       IN  sortLocale(SelectSeq(names, Truthy))

\* Variant of broadcastUserList: the room is not told.
broadcastUserList_Skip(st, r) == st

broadcastUserList(st, r) ==
  LET users == getUsersForRoom(st, r)
  IN  broadcastToRoom(st, r, [type |-> "user-list", room |-> r, users |-> users], NoSocket)

\* Variant of sendRoomState: the two sends swapped.
sendRoomState_UserListFirst(st, socket) ==
  LET st1 == sendToClient(st, socket,
               [type |-> "user-list", room |-> st.room[socket],
                users |-> getUsersForRoom(st, st.room[socket])])
  IN  sendToClient(st1, socket, [type |-> "room-current", room |-> st1.room[socket]])

sendRoomState(st, socket) ==
  LET st1 == sendToClient(st, socket, [type |-> "room-current", room |-> st.room[socket]])
  IN  sendToClient(st1, socket,
        [type |-> "user-list", room |-> st1.room[socket],
         users |-> getUsersForRoom(st1, st1.room[socket])])

LeftText(u, r) == u \o <<" a quitte ">> \o r
JoinedText(u, r) == u \o <<" a rejoint ">> \o r

\* Variant of moveSocketToRoom: without the early return for the current room.
moveSocketToRoom_NoShortcut(st, socket, nextRoom) ==
  LET previousRoom == st.room[socket]
      s1 == ensureRoom(st, previousRoom)
      s2 == [s1 EXCEPT !.rooms[previousRoom] = SetDelete(@, socket)]
      s3 == broadcastToRoom(s2, previousRoom,
              System(LeftText(s2.username[socket], previousRoom)), NoSocket)
      s4 == broadcastUserList(s3, previousRoom)
      s5 == removeRoomIfEmpty(s4, previousRoom)
      s6 == ensureRoom(s5, nextRoom)
      s7 == [s6 EXCEPT !.rooms[nextRoom] = SetAdd(@, socket),
                       !.room[socket] = nextRoom]
      s8 == sendRoomState(s7, socket)
      s9 == broadcastToRoom(s8, nextRoom,
              System(JoinedText(s8.username[socket], nextRoom)), NoSocket)
      s10 == broadcastUserList(s9, nextRoom)
  IN  broadcastRoomList(s10)

\* Variant of moveSocketToRoom: the new room hears of the arrival before the
\* requester is sent the room state.
moveSocketToRoom_NoticeFirst(st, socket, nextRoom) ==
  LET previousRoom == st.room[socket]
  IN  IF previousRoom = nextRoom THEN sendRoomState(st, socket)
      ELSE
        LET s1 == ensureRoom(st, previousRoom)
            s2 == [s1 EXCEPT !.rooms[previousRoom] = SetDelete(@, socket)]
            s3 == broadcastToRoom(s2, previousRoom,
                    System(LeftText(s2.username[socket], previousRoom)), NoSocket)
            s4 == broadcastUserList(s3, previousRoom)
            s5 == removeRoomIfEmpty(s4, previousRoom)
            s6 == ensureRoom(s5, nextRoom)
            s7 == [s6 EXCEPT !.rooms[nextRoom] = SetAdd(@, socket),
                             !.room[socket] = nextRoom]
            s8 == broadcastToRoom(s7, nextRoom,
                    System(JoinedText(s7.username[socket], nextRoom)), NoSocket)
            s9 == sendRoomState(s8, socket)
            s10 == broadcastUserList(s9, nextRoom)
        IN  broadcastRoomList(s10)

\* Variant of moveSocketToRoom: the socket is not deleted from its previous room.
moveSocketToRoom_NoDelete(st, socket, nextRoom) ==
  LET previousRoom == st.room[socket]
  IN  IF previousRoom = nextRoom THEN sendRoomState(st, socket)
      ELSE
        LET s1 == ensureRoom(st, previousRoom)
            s3 == broadcastToRoom(s1, previousRoom,
                    System(LeftText(s1.username[socket], previousRoom)), NoSocket)
            s4 == broadcastUserList(s3, previousRoom)
            s5 == removeRoomIfEmpty(s4, previousRoom)
            s6 == ensureRoom(s5, nextRoom)
            s7 == [s6 EXCEPT !.rooms[nextRoom] = SetAdd(@, socket),
                             !.room[socket] = nextRoom]
            s8 == sendRoomState(s7, socket)
            s9 == broadcastToRoom(s8, nextRoom,
                    System(JoinedText(s8.username[socket], nextRoom)), NoSocket)
            s10 == broadcastUserList(s9, nextRoom)
        IN  broadcastRoomList(s10)

moveSocketToRoom(st, socket, nextRoom) ==
  LET previousRoom == st.room[socket]
  IN  IF previousRoom = nextRoom THEN sendRoomState(st, socket)
      ELSE
        LET s1 == ensureRoom(st, previousRoom)
            s2 == [s1 EXCEPT !.rooms[previousRoom] = SetDelete(@, socket)]
            s3 == broadcastToRoom(s2, previousRoom,
                    System(LeftText(s2.username[socket], previousRoom)), NoSocket)
            s4 == broadcastUserList(s3, previousRoom)
            s5 == removeRoomIfEmpty(s4, previousRoom)
            s6 == ensureRoom(s5, nextRoom)
            s7 == [s6 EXCEPT !.rooms[nextRoom] = SetAdd(@, socket),
                             !.room[socket] = nextRoom]
            s8 == sendRoomState(s7, socket)
            s9 == broadcastToRoom(s8, nextRoom,
                    System(JoinedText(s8.username[socket], nextRoom)), NoSocket)
            s10 == broadcastUserList(s9, nextRoom)
        IN  broadcastRoomList(s10)

\* Variant of verifyToken: decodes the token without verifying it.
verifyToken_NoVerify(token) ==
  IF ~token.present THEN Null
  ELSE IF ~Truthy(token.username) THEN Null
  ELSE token.username

\* verifyToken(getTokenFromRequest(req))
verifyToken(token) ==
  IF ~token.present THEN Null
  ELSE IF ~token.verifies THEN Null
  ELSE IF ~Truthy(token.username) THEN Null
  ELSE token.username

\* wss.on("connection"): ws is already in wss.clients and OPEN.
onConnection(st, ws, token) ==
  LET name == verifyToken(token)
  IN  IF ~Truthy(name)
      THEN [st EXCEPT !.readyState[ws] = "CLOSING"]       \* ws.close(4001)
      ELSE
        LET s1 == [st EXCEPT !.username[ws] = name, !.room[ws] = DEFAULT_ROOM]
            s2 == ensureRoom(s1, DEFAULT_ROOM)
            s3 == [s2 EXCEPT !.rooms[DEFAULT_ROOM] = SetAdd(@, ws)]
            s4 == broadcastToRoom(s3, s3.room[ws],
                    System(JoinedText(s3.username[ws], s3.room[ws])), NoSocket)
            s5 == broadcastUserList(s4, s4.room[ws])
            s6 == sendToClient(s5, ws,
                    System(<<"Connexion etablie pour ">> \o s5.username[ws] \o <<".">>))
            s7 == sendToClient(s6, ws, [type |-> "room-current", room |-> s6.room[ws]])
            s8 == sendToClient(s7, ws, [type |-> "room-list", rooms |-> getRoomsList(s7)])
            s9 == sendToClient(s8, ws,
                    [type |-> "user-list", room |-> s8.room[ws],
                     users |-> getUsersForRoom(s8, s8.room[ws])])
        IN  broadcastRoomList(s9)

\* A listener that throws: nothing catches it.
Throw(st) == [st EXCEPT !.threw = TRUE]

\* The branches of the message listener.
\* Variant of the invalid-message branch: the notice goes to the sender's room.
onInvalidMessage_ToRoom(st, ws) ==
  broadcastToRoom(st, st.room[ws], System(<<"Message invalide.">>), NoSocket)

\* !payload || !payload.type
onInvalidMessage(st, ws) ==
  sendToClient(st, ws, System(<<"Message invalide.">>))

\* case "join-room"
onJoinRoom(st, ws, payload) ==
  IF payload.room = Undefined THEN Throw(st)   \* rawRoom.trim is not a function
  ELSE LET nextRoom == normalizeRoomName(payload.room)
       IN  IF nextRoom = Null
           THEN sendToClient(st, ws, System(<<"Nom de room invalide.">>))
           ELSE moveSocketToRoom(st, ws, nextRoom)

\* Variant of the leave-room case: the caller is told it left before it is moved.
onLeaveRoom_Farewell(st, ws, payload) ==
  IF payload.room = Undefined THEN Throw(st)
  ELSE LET r == normalizeRoomName(payload.room)
       IN  IF r = Null \/ r # st.room[ws] THEN st
           ELSE IF st.room[ws] = DEFAULT_ROOM
                THEN sendToClient(st, ws, System(<<"Vous etes deja dans #general.">>))
                ELSE moveSocketToRoom(
                       sendToClient(st, ws, System(LeftText(st.username[ws], r))),
                       ws, DEFAULT_ROOM)

\* case "leave-room"
onLeaveRoom(st, ws, payload) ==
  IF payload.room = Undefined THEN Throw(st)
  ELSE LET r == normalizeRoomName(payload.room)
       IN  IF r = Null \/ r # st.room[ws] THEN st
           ELSE IF st.room[ws] = DEFAULT_ROOM
                THEN sendToClient(st, ws, System(<<"Vous etes deja dans #general.">>))
                ELSE moveSocketToRoom(st, ws, DEFAULT_ROOM)

\* case "chat"
onChat(st, ws, payload, now) ==
  IF payload.text = Undefined THEN Throw(st)   \* payload.text.trim()
  ELSE LET text == trim(payload.text)
       IN  IF text = <<>> THEN st
           ELSE broadcastToRoom(st, st.room[ws],
                  [type |-> "chat", nick |-> st.username[ws],
                   text |-> text, ts |-> now], NoSocket)

\* Variant of the typing case: the room's user-list is refreshed as well.
onTyping_Refresh(st, ws) ==
  broadcastUserList(
    broadcastToRoom(st, st.room[ws], [type |-> "typing", nick |-> st.username[ws]], ws),
    st.room[ws])

\* case "typing"
onTyping(st, ws) ==
  broadcastToRoom(st, st.room[ws], [type |-> "typing", nick |-> st.username[ws]], ws)

\* default
\* Variant of the default case: a set-nick frame renames the sender.
onUnsupported_SetNick(st, ws, payload) ==
  LET s1 == IF payload.type = "set-nick" /\ Truthy(payload.nick)
            THEN [st EXCEPT !.username[ws] = payload.nick]
            ELSE st
  IN  sendToClient(s1, ws, System(<<"Type non supporte.">>))

onUnsupported(st, ws, payload) ==
  sendToClient(st, ws, System(<<"Type non supporte.">>))

\* ws.on("message"); now is the value of Date.now().
onMessage(st, ws, raw, now) ==
  LET payload == parseClientMessage(raw)
  IN  IF payload.json = "null" \/ payload.type = ""
      THEN onInvalidMessage(st, ws)
      ELSE
        CASE payload.type = "join-room" -> onJoinRoom(st, ws, payload)
          [] payload.type = "leave-room" -> onLeaveRoom(st, ws, payload)
          [] payload.type = "chat" -> onChat(st, ws, payload, now)
          [] payload.type = "typing" -> onTyping(st, ws)
          [] OTHER -> onUnsupported(st, ws, payload)

\* Variant of onClose: announces the departure before deleting the socket.
onClose_BroadcastFirst(st, socket) ==
  LET r == st.room[socket]
      s1 == broadcastToRoom(st, r, System(LeftText(st.username[socket], r)), NoSocket)
      s2 == broadcastUserList(s1, r)
      s3 == IF r \in DOMAIN s2.rooms
            THEN [s2 EXCEPT !.rooms[r] = SetDelete(@, socket)]
            ELSE s2
      s4 == removeRoomIfEmpty(s3, r)
  IN  broadcastRoomList(s4)

\* ws.on("close"): ws is CLOSED and no longer in wss.clients.
onClose(st, socket) ==
  LET r == st.room[socket]
      s1 == IF r \in DOMAIN st.rooms
            THEN [st EXCEPT !.rooms[r] = SetDelete(@, socket)]
            ELSE st
      s2 == broadcastToRoom(s1, r, System(LeftText(s1.username[socket], r)), NoSocket)
      s3 == broadcastUserList(s2, r)
      s4 == removeRoomIfEmpty(s3, r)
  IN  broadcastRoomList(s4)

\* ---------------------------------------------------------------- actions
Event(k, c, f) == [kind |-> k, conn |-> c, frame |-> f]

\* The clients and their room forms.
Apps == {"tokenClient", "nickClient"}
DraftChars == {" ", "\t", "A", "a", "#", "-"}
Drafts == UNION {[1..n -> DraftChars] : n \in 0..MaxDraftLen}

\* A room form: the text typed (roomDraft), how far its submission got and
\* the room field of the join-room frame that went out, then the room the
\* server made of that field.
Submission(app, draft, step, wire, serverRoom) ==
  [app |-> app, roomDraft |-> draft, step |-> step, wire |-> wire,
   serverRoom |-> serverRoom]
NoSubmission == Submission("tokenClient", <<>>, "none", Undefined, Undefined)

ServerInit ==
  /\ rooms = (DEFAULT_ROOM :> <<>>)
  /\ clients = <<>>
  /\ readyState = [c \in Conns |-> "NONE"]
  /\ username = [c \in Conns |-> Undefined]
  /\ room = [c \in Conns |-> Undefined]
  /\ attached = [c \in Conns |-> FALSE]
  /\ closeCode = [c \in Conns |-> 0]
  /\ crashed = FALSE
  /\ lastEvent = Event("init", NoSocket, NoFrame)
  /\ sent = <<>>
  /\ events = 0

Init == ServerInit /\ submission = NoSubmission

Commit(st) ==
  /\ rooms' = st.rooms
  /\ clients' = st.clients
  /\ readyState' = st.readyState
  /\ username' = st.username
  /\ room' = st.room
  /\ sent' = st.out
  /\ crashed' = st.threw
  /\ events' = events + 1

\* The c-th transport completes its handshake and the connection handler runs.
Connect(c, token) ==
  /\ ~crashed
  /\ events < MaxEvents
  /\ readyState[c] = "NONE"
  /\ \A d \in Conns : d < c => readyState[d] # "NONE"
  /\ LET st0 == [Current EXCEPT !.clients = SetAdd(@, c), !.readyState[c] = "OPEN"]
         st == onConnection(st0, c, token)
         ok == Truthy(verifyToken(token))
     IN  /\ Commit(st)
         /\ attached' = [attached EXCEPT ![c] = ok]
         /\ closeCode' = [closeCode EXCEPT ![c] = IF ok THEN 0 ELSE 4001]
  /\ lastEvent' = Event("connection", c, NoFrame)
  /\ UNCHANGED submission

\* A frame from transport c is handed to its message listener.
Message(c, raw, now) ==
  /\ ~crashed
  /\ events < MaxEvents
  /\ attached[c]
  /\ readyState[c] \in {"OPEN", "CLOSING"}
  /\ Commit(onMessage(Current, c, raw, now))
  /\ lastEvent' = Event("message", c, raw)
  /\ UNCHANGED <<attached, closeCode, submission>>

\* The peer closes or the socket fails: the transport stops being OPEN; its
\* close event has not been emitted yet.
TransportClosing(c) ==
  /\ ~crashed
  /\ events < MaxEvents
  /\ readyState[c] = "OPEN"
  /\ readyState' = [readyState EXCEPT ![c] = "CLOSING"]
  /\ lastEvent' = Event("closing", c, NoFrame)
  /\ sent' = <<>>
  /\ events' = events + 1
  /\ UNCHANGED <<rooms, clients, username, room, attached, closeCode, crashed,
                 submission>>

\* The close event of transport c: the server drops it from wss.clients and
\* the close listener, if registered, runs.
Close(c) ==
  /\ ~crashed
  /\ events < MaxEvents
  /\ readyState[c] = "CLOSING"
  /\ LET st0 == [Current EXCEPT !.clients = SetDelete(@, c), !.readyState[c] = "CLOSED"]
         st == IF attached[c] THEN onClose(st0, c) ELSE st0
         \* nothing references the socket object any more
     IN  Commit([st EXCEPT !.username[c] = Undefined, !.room[c] = Undefined])
  /\ attached' = [attached EXCEPT ![c] = FALSE]
  /\ lastEvent' = Event("close", c, NoFrame)
  /\ UNCHANGED <<closeCode, submission>>

Next ==
  \/ \E c \in Conns, token \in Tokens : Connect(c, token)
  \/ \E c \in Conns, raw \in Frames :
       \E now \in (IF raw.type = "chat" THEN 1..MaxClock ELSE {1}) : Message(c, raw, now)
  \/ \E c \in Conns : TransportClosing(c)
  \/ \E c \in Conns : Close(c)

Spec == Init /\ [][Next]_vars

\* ------------------------------------------------- the clients' room form
clientNormalize(app, raw) ==
  IF app = "tokenClient" THEN tokenClient_normalizeRoomName(raw)
  ELSE nickClient_normalizeRoomName(raw)

serverVars == <<rooms, clients, readyState, username, room, attached, closeCode,
                crashed, lastEvent, sent, events>>

\* submitRoom normalizes the draft and hands the result to joinRoom, which
\* normalizes what it is given once more and sends it; either returns early
\* on an empty name.
submitRoom ==
  /\ submission.step = "typed"
  /\ LET normalized == clientNormalize(submission.app, submission.roomDraft)
         joined == clientNormalize(submission.app, normalized)
     IN  submission' =
           IF normalized = <<>> \/ joined = <<>>
           THEN [submission EXCEPT !.step = "ignored"]
           ELSE [submission EXCEPT !.step = "sent", !.wire = joined]
  /\ UNCHANGED serverVars

\* The server's join-room case normalizes the room field of the frame.
receiveJoinRoom ==
  /\ submission.step = "sent"
  /\ LET next == normalizeRoomName(submission.wire)
     IN  submission' = [submission EXCEPT
                         !.step = IF next = Null THEN "rejected" ELSE "joined",
                         !.serverRoom = next]
  /\ UNCHANGED serverVars

FormInit ==
  /\ ServerInit
  /\ submission \in {Submission(app, draft, "typed", Undefined, Undefined) :
                       app \in Apps, draft \in Drafts}

FormNext == submitRoom \/ receiveJoinRoom

FormSpec == FormInit /\ [][FormNext]_vars

\* ------------------------------------------------------------ properties
Members(r) == IF r \in DOMAIN rooms THEN Range(rooms[r]) ELSE {}
RoomsOf(c) == {r \in DOMAIN rooms : c \in Range(rooms[r])}
IsMessage(e, t) == e.kind = "message" /\ e.frame.json = "object" /\ e.frame.type = t
\* Positions of the log at which a message of type t was sent to c.
SentAt(log, c, t) == {i \in 1..Len(log) : log[i].to = c /\ log[i].msg.type = t}
NoDuplicates(s) == \A i, j \in 1..Len(s) : s[i] = s[j] => i = j

\* C1: between handlers every attached connection is a member of exactly one
\* room's member set, the room recorded as its current room; a connection
\* that is not attached is a member of none.
C1_ExactlyOneRoom ==
  \A c \in Conns :
    /\ attached[c] => RoomsOf(c) = {room[c]}
    /\ ~attached[c] => RoomsOf(c) = {}

\* C1 witness: a connection has moved to a non-default room by join-room and
\* another connection has detached.
C1_Witness ==
  /\ IsMessage(lastEvent, "join-room")
  /\ attached[lastEvent.conn]
  /\ room[lastEvent.conn] # DEFAULT_ROOM
  /\ RoomsOf(lastEvent.conn) = {room[lastEvent.conn]}
  /\ \E d \in Conns : readyState[d] = "CLOSED" /\ closeCode[d] = 0

\* C2: the default room is in the directory in every reachable state.
C2_DefaultRoomExists == DEFAULT_ROOM \in DOMAIN rooms

\* C2 witness: the last member of the default room has just left it, by
\* join-room or by closing, and the room is still there with zero members.
C2_Witness ==
  /\ DEFAULT_ROOM \in DOMAIN rooms
  /\ rooms[DEFAULT_ROOM] = <<>>
  /\ \/ IsMessage(lastEvent, "join-room") /\ room[lastEvent.conn] # DEFAULT_ROOM
     \/ lastEvent.kind = "close" /\ closeCode[lastEvent.conn] = 0

\* C3: at the end of every handler a non-default room is in the directory
\* exactly when some attached connection has it as current room: no empty
\* non-default room is kept and no room that still has a member is deleted.
C3_NonDefaultRoomIffOccupied ==
  /\ \A r \in DOMAIN rooms : r # DEFAULT_ROOM => rooms[r] # <<>>
  /\ \A c \in Conns : attached[c] => room[c] \in DOMAIN rooms /\ c \in Members(room[c])

\* C3 witness: the only member of #games has just left it (leave-room took it
\* back to the default room) and #games is gone.
C3_Witness ==
  /\ IsMessage(lastEvent, "leave-room")
  /\ lastEvent.frame.room = RawGames
  /\ SentAt(sent, lastEvent.conn, "room-current") # {}
  /\ room[lastEvent.conn] = DEFAULT_ROOM
  /\ Games \notin DOMAIN rooms

\* C4: every room-list sent contains the default room, contains a non-default
\* name exactly when that room has a member, and contains no name twice.
\* (Every room-list is sent after the last mutation of its handler, so the
\* members at the time of the send are the members of the state after it.)
C4_RoomListContent ==
  \A i \in 1..Len(sent) :
    sent[i].msg.type = "room-list" =>
      LET list == sent[i].msg.rooms
      IN  /\ DEFAULT_ROOM \in Range(list)
          /\ \A r \in Range(list) \cup DOMAIN rooms :
               r # DEFAULT_ROOM => (r \in Range(list) <=> Members(r) # {})
          /\ NoDuplicates(list)

\* C4 witness: a room-list naming two non-default rooms has been sent after a
\* room change.
C4_Witness ==
  /\ IsMessage(lastEvent, "join-room")
  /\ \E i \in 1..Len(sent) :
       /\ sent[i].msg.type = "room-list"
       /\ {Games, NewRoom} \subseteq Range(sent[i].msg.rooms)

\* The last event is a chat frame whose text is non-empty after trimming.
ChatAccepted ==
  /\ IsMessage(lastEvent, "chat")
  /\ lastEvent.frame.text # Undefined
  /\ trim(lastEvent.frame.text) # <<>>

\* C5: an accepted chat from a connection in room R delivers exactly one chat
\* message to each open member of R (the sender included when open) and none
\* to any other connection; all copies are the same message, whose nick is
\* the sender's verified identity and whose text is the trimmed text.
C5_ChatFanout ==
  ChatAccepted =>
    LET s == lastEvent.conn
        R == room[s]
    IN  /\ username[s] \in Users
        /\ \A c \in Conns :
             Cardinality(SentAt(sent, c, "chat")) =
               IF c \in Members(R) /\ readyState[c] = "OPEN" THEN 1 ELSE 0
        /\ \E ts \in 1..MaxClock :
             \A i \in 1..Len(sent) :
               sent[i].msg.type = "chat" =>
                 sent[i].msg = [type |-> "chat", nick |-> username[s],
                                text |-> trim(lastEvent.frame.text), ts |-> ts]

\* C5 witness: a chat frame carrying a nick field that is not the sender's
\* identity has been fanned out to the sender and to another member, while a
\* third connection sits in another room.
C5_Witness ==
  /\ ChatAccepted
  /\ lastEvent.frame.nick = Raphael
  /\ username[lastEvent.conn] = Beatrice
  /\ SentAt(sent, lastEvent.conn, "chat") # {}
  /\ \E c \in Conns : c # lastEvent.conn /\ SentAt(sent, c, "chat") # {}

\* C6: typing from a connection in room R delivers one typing message with
\* the sender's identity to every other open member of R, none to the sender
\* and none to a connection outside R.
C6_TypingFanout ==
  IsMessage(lastEvent, "typing") =>
    LET s == lastEvent.conn
        R == room[s]
    IN  /\ \A c \in Conns :
             Cardinality(SentAt(sent, c, "typing")) =
               IF c # s /\ c \in Members(R) /\ readyState[c] = "OPEN" THEN 1 ELSE 0
        /\ \A i \in 1..Len(sent) :
             sent[i].msg.type = "typing" =>
               sent[i].msg = [type |-> "typing", nick |-> username[s]]

\* C6 witness: typing reached another member of the sender's room while an
\* open connection in another room received nothing.
C6_Witness ==
  /\ IsMessage(lastEvent, "typing")
  /\ readyState[lastEvent.conn] = "OPEN"
  /\ \E c \in Conns : c # lastEvent.conn /\ SentAt(sent, c, "typing") # {}
  /\ \E d \in Conns :
       attached[d] /\ readyState[d] = "OPEN" /\ room[d] # room[lastEvent.conn]

\* The step handles join-room from open connection c, whose normalized name
\* is valid and differs from c's current room.
JoinMoves(c) ==
  /\ IsMessage(lastEvent', "join-room")
  /\ lastEvent'.conn = c
  /\ lastEvent'.frame.room # Undefined
  /\ normalizeRoomName(lastEvent'.frame.room) \notin {Null, room[c]}

\* C7: after join-room{X} with X different from the requester's current
\* room, the requester (if open) receives room-current{X}, and receives it
\* before every user-list for X sent by that join.
C7_RoomCurrentBeforeUserList ==
  [][\A c \in Conns :
       JoinMoves(c) /\ readyState[c] = "OPEN" =>
         LET X == normalizeRoomName(lastEvent'.frame.room)
             rc == {i \in SentAt(sent', c, "room-current") : sent'[i].msg.room = X}
             ul == {j \in SentAt(sent', c, "user-list") : sent'[j].msg.room = X}
         IN  /\ rc # {}
             /\ ul # {}
             /\ \A j \in ul : \E i \in rc : i < j]_vars

\* C7 witness: a join-room into a room that already had a member has run;
\* the requester got room-current and two user-lists for the new room.
C7_Witness ==
  /\ IsMessage(lastEvent, "join-room")
  /\ room[lastEvent.conn] = Games
  /\ Cardinality(Members(Games)) >= 2
  /\ SentAt(sent, lastEvent.conn, "room-current") # {}
  /\ Cardinality(SentAt(sent, lastEvent.conn, "user-list")) = 2

Count(list, x) == Cardinality({i \in 1..Len(list) : list[i] = x})

\* C8 as stated: after join-room{X} with X different from the requester's
\* current room, no user-list for the old room sent by that join includes the
\* requester's identity.
C8_OldRoomListOmitsIdentity ==
  [][\A c \in Conns :
       JoinMoves(c) =>
         \A i \in 1..Len(sent') :
           sent'[i].msg.type = "user-list" /\ sent'[i].msg.room = room[c] =>
             username[c] \notin Range(sent'[i].msg.users)]_vars

\* C8 amended: after join-room{X} with X different from the requester's
\* current room P, the requester is no longer a member of P, every remaining
\* open member of P receives a user-list for P, and every user-list sent (by
\* that join and by every later event) has exactly one entry per member of
\* its room: the requester's identity is in P's list only as often as
\* remaining members of P carry the same identity.
C8_OldRoomListExactMembers ==
  [][/\ \A i \in 1..Len(sent') :
          sent'[i].msg.type = "user-list" =>
            LET r == sent'[i].msg.room
                users == sent'[i].msg.users
                now == IF r \in DOMAIN rooms' THEN Range(rooms'[r]) ELSE {}
            IN  \A u \in Range(users) \cup {username'[d] : d \in now} :
                  Count(users, u) = Cardinality({d \in now : username'[d] = u})
     /\ \A c \in Conns :
          JoinMoves(c) =>
            LET P == room[c]
                remaining == IF P \in DOMAIN rooms' THEN Range(rooms'[P]) ELSE {}
            IN  /\ c \notin remaining
                /\ remaining = Members(P) \ {c}
                /\ \A d \in remaining :
                     readyState[d] = "OPEN" =>
                       \E i \in SentAt(sent', d, "user-list") :
                         /\ sent'[i].msg.room = P
                         /\ Count(sent'[i].msg.users, username[c]) =
                              Cardinality({e \in remaining : username[e] = username[c]})]_vars

\* C8 witness: a connection has left the default room by join-room while
\* another connection with the same identity stays there and has received
\* the default room's user-list, which still names that identity.
C8_Witness ==
  /\ IsMessage(lastEvent, "join-room")
  /\ room[lastEvent.conn] # DEFAULT_ROOM
  /\ \E d \in Members(DEFAULT_ROOM) :
       /\ username[d] = username[lastEvent.conn]
       /\ \E i \in SentAt(sent, d, "user-list") :
            /\ sent[i].msg.room = DEFAULT_ROOM
            /\ username[lastEvent.conn] \in Range(sent[i].msg.users)

\* C9: join-room for a name that normalizes to X makes the requester a
\* member of the one room X and keeps every connection that was already a
\* member of X, so two connections that join the not-yet-existing "new room"
\* in either order are both members of #new-room.
C9_JoinSharesOneRoom ==
  [][\A c \in Conns :
       JoinMoves(c) =>
         LET X == normalizeRoomName(lastEvent'.frame.room)
         IN  /\ X \in DOMAIN rooms'
             /\ Range(rooms'[X]) = Members(X) \cup {c}
             /\ NoDuplicates(rooms'[X])
             /\ \A d \in Range(rooms'[X]) : room'[d] = X]_vars

\* C9 witness: #new-room did not exist at the start; two connections have
\* asked for "new room" and " New  Room" and both are members of #new-room.
C9_Witness ==
  /\ IsMessage(lastEvent, "join-room")
  /\ lastEvent.frame.room \in {RawNewRoom, RawNewRoomSpaced}
  /\ NewRoom \in DOMAIN rooms
  /\ Cardinality(Members(NewRoom)) = 2
  /\ lastEvent.conn \in Members(NewRoom)

\* C10 as stated: on attach the first four messages the new connection
\* receives are the welcome system message, room-current, room-list and the
\* user-list of the starting room, before any broadcast message.
C10_SnapshotFirst ==
  (lastEvent.kind = "connection" /\ attached[lastEvent.conn]) =>
    LET c == lastEvent.conn
        mine == SelectSeq(sent, LAMBDA e : e.to = c)
    IN  /\ Len(mine) >= 4
        /\ mine[1].msg = System(<<"Connexion etablie pour ">> \o username[c] \o <<".">>)
        /\ mine[2].msg.type = "room-current"
        /\ mine[3].msg.type = "room-list"
        /\ mine[4].msg.type = "user-list"

\* The messages of a log that went to c, in order.
Inbox(log, c) == SelectSeq(log, LAMBDA e : e.to = c)
MembersAfter(r) == IF r \in DOMAIN rooms' THEN Range(rooms'[r]) ELSE {}
\* Position of a message type in the order a room-change or close emits them.
PhaseOf(t) == CASE t = "system" -> 1 [] t = "user-list" -> 2 [] OTHER -> 3

\* C11: the close of an attached connection c in room R is one step that
\* removes c from R; each remaining open member of R receives the leave
\* notice, then a user-list of R without c's entry, then the room-list; R is
\* deleted exactly when it is non-default and now empty, and the room-list
\* already shows that; every other open connection receives only the
\* room-list; c receives nothing.  All notices precede all user-lists, which
\* precede all room-lists.
C11_DetachSequence ==
  [][\A c \in Conns :
       (lastEvent'.kind = "close" /\ lastEvent'.conn = c /\ attached[c]) =>
         LET R == room[c]
             remaining == Members(R) \ {c}
         IN  /\ ~attached'[c]
             /\ MembersAfter(R) = remaining
             /\ R \in DOMAIN rooms' <=> (R = DEFAULT_ROOM \/ remaining # {})
             /\ \A r \in (DOMAIN rooms \cup DOMAIN rooms') \ {R} :
                  r \in DOMAIN rooms /\ r \in DOMAIN rooms' /\ rooms'[r] = rooms[r]
             /\ Inbox(sent', c) = <<>>
             /\ \A i, j \in 1..Len(sent') :
                  i < j => PhaseOf(sent'[i].msg.type) <= PhaseOf(sent'[j].msg.type)
             /\ \A d \in Conns \ {c} :
                  LET mine == Inbox(sent', d)
                      n == Len(mine)
                  IN  /\ readyState[d] # "OPEN" => n = 0
                      /\ readyState[d] = "OPEN" =>
                           /\ n = IF d \in remaining THEN 3 ELSE 1
                           /\ mine[n].msg.type = "room-list"
                           /\ Range(mine[n].msg.rooms) = DOMAIN rooms'
                      /\ (readyState[d] = "OPEN" /\ d \in remaining) =>
                           /\ mine[1].msg = System(LeftText(username[c], R))
                           /\ mine[2].msg.type = "user-list"
                           /\ mine[2].msg.room = R
                           /\ \A u \in Users :
                                Count(mine[2].msg.users, u) =
                                  Cardinality({e \in remaining : username[e] = u})]_vars

\* C11 witness: an attached connection has closed and a member that stayed
\* in its room has received the leave notice, the user-list and the
\* room-list.
C11_Witness ==
  /\ lastEvent.kind = "close"
  /\ closeCode[lastEvent.conn] = 0
  /\ \E d \in Conns :
       /\ Len(Inbox(sent, d)) = 3
       /\ Inbox(sent, d)[1].msg.type = "system"
       /\ Inbox(sent, d)[2].msg.type = "user-list"
       /\ Inbox(sent, d)[3].msg.type = "room-list"

\* A token that is missing, does not verify, or names no user.
Refusable(token) ==
  ~token.present \/ ~token.verifies \/ token.username \notin Users

\* C12: a connection attempt with a missing or unverifiable token is closed
\* with code 4001 and never attached: the attempt sends no message, changes
\* no room, membership or identity, and neither does the later close of the
\* refused transport; a refused connection never becomes a member of a room
\* and never receives a message.
C12_UnauthorizedRefused ==
  [][\A c \in Conns :
       /\ \A token \in Tokens :
            (Connect(c, token) /\ Refusable(token)) =>
              /\ closeCode'[c] = 4001
              /\ ~attached'[c]
              /\ readyState'[c] # "OPEN"
              /\ sent' = <<>>
              /\ rooms' = rooms /\ room' = room /\ username' = username
              /\ ~crashed'
       /\ closeCode[c] = 4001 =>
            /\ closeCode'[c] = 4001
            /\ ~attached'[c]
            /\ readyState'[c] # "OPEN"
            /\ \A r \in DOMAIN rooms' : c \notin Range(rooms'[r])
            /\ Inbox(sent', c) = <<>>
       /\ (lastEvent'.kind = "close" /\ lastEvent'.conn = c /\ closeCode[c] = 4001) =>
            /\ sent' = <<>>
            /\ rooms' = rooms /\ room' = room /\ username' = username]_vars

\* C12 witness: a refused transport has closed while another connection is
\* attached and open; nothing was sent.
C12_Witness ==
  /\ lastEvent.kind = "close"
  /\ closeCode[lastEvent.conn] = 4001
  /\ readyState[lastEvent.conn] = "CLOSED"
  /\ sent = <<>>
  /\ \E d \in Conns : attached[d] /\ readyState[d] = "OPEN"

\* The step handles leave-room from open connection c whose room field is a
\* string.
LeaveRoomFrom(c) ==
  /\ IsMessage(lastEvent', "leave-room")
  /\ lastEvent'.conn = c
  /\ lastEvent'.frame.room # Undefined
  /\ readyState[c] = "OPEN"

\* The step sends a system notice to c, sends nothing to anyone else and
\* leaves rooms, membership and identities as they were.
RejectedWithNotice(c) ==
  /\ SentAt(sent', c, "system") # {}
  /\ \A d \in Conns \ {c} : Inbox(sent', d) = <<>>
  /\ rooms' = rooms /\ room' = room /\ username' = username

\* C13 as stated: leave-room naming a room that is not the caller's current
\* room sends the caller a system notice and changes nothing else.
C13_LeaveOtherRoomNotice ==
  [][\A c \in Conns :
       (LeaveRoomFrom(c)
        /\ normalizeRoomName(lastEvent'.frame.room) \notin {Null, room[c]}) =>
         RejectedWithNotice(c)]_vars

\* C14 as stated: leave-room naming the default room sends the caller a
\* system notice and changes nothing, whether the caller is in the default
\* room or in another room.
C14_LeaveDefaultRoomNotice ==
  [][\A c \in Conns :
       (LeaveRoomFrom(c)
        /\ normalizeRoomName(lastEvent'.frame.room) = DEFAULT_ROOM) =>
         RejectedWithNotice(c)]_vars

\* C15: join-room whose normalized name is the requester's current room
\* changes nothing (so repeating it changes nothing either); an open
\* requester receives exactly room-current and then the user-list of that
\* room, one entry per member, and no other connection receives anything.
C15_JoinCurrentRoomRefresh ==
  [][\A c \in Conns :
       (/\ IsMessage(lastEvent', "join-room")
        /\ lastEvent'.conn = c
        /\ lastEvent'.frame.room # Undefined
        /\ normalizeRoomName(lastEvent'.frame.room) = room[c]) =>
         /\ rooms' = rooms /\ room' = room /\ username' = username
         /\ attached' = attached /\ readyState' = readyState /\ ~crashed'
         /\ readyState[c] # "OPEN" => sent' = <<>>
         /\ readyState[c] = "OPEN" =>
              /\ Len(sent') = 2
              /\ sent'[1] = [to |-> c, msg |-> [type |-> "room-current", room |-> room[c]]]
              /\ sent'[2].to = c
              /\ sent'[2].msg.type = "user-list"
              /\ sent'[2].msg.room = room[c]
              /\ \A u \in Users :
                   Count(sent'[2].msg.users, u) =
                     Cardinality({d \in Members(room[c]) : username[d] = u})]_vars

\* C15 witness: a connection in the default room, which has another open
\* member, asked to join "General" and received just the two refresh
\* messages.
C15_Witness ==
  /\ IsMessage(lastEvent, "join-room")
  /\ lastEvent.frame.room = RawGeneral
  /\ room[lastEvent.conn] = DEFAULT_ROOM
  /\ Len(sent) = 2
  /\ sent[1].msg.type = "room-current"
  /\ sent[2].msg.type = "user-list"
  /\ \E d \in Members(DEFAULT_ROOM) : d # lastEvent.conn /\ readyState[d] = "OPEN"

\* A frame that is not JSON, is a falsy JSON value, has no type, or has a
\* type the server does not know.
Untyped(f) == f.json \in {"garbage", "null"} \/ (f.json = "object" /\ f.type = "")
UnknownType(f) ==
  f.json = "object" /\ f.type \notin {"", "join-room", "leave-room", "chat", "typing"}

\* C16: a frame that cannot be parsed, has no type or has an unrecognized
\* type changes no room, membership or identity and sends nothing to any
\* other connection; the sender, when its transport is open, receives exactly
\* one message, a system notice (nothing can be delivered to a sender whose
\* transport is no longer open).
C16_InvalidFrameNotice ==
  [][\A c \in Conns :
       (/\ lastEvent'.kind = "message"
        /\ lastEvent'.conn = c
        /\ (Untyped(lastEvent'.frame) \/ UnknownType(lastEvent'.frame))) =>
         /\ rooms' = rooms /\ room' = room /\ username' = username
         /\ attached' = attached /\ ~crashed'
         /\ \A d \in Conns \ {c} : Inbox(sent', d) = <<>>
         /\ readyState[c] # "OPEN" => sent' = <<>>
         /\ readyState[c] = "OPEN" =>
              sent' = <<[to |-> c,
                         msg |-> System(IF Untyped(lastEvent'.frame)
                                        THEN <<"Message invalide.">>
                                        ELSE <<"Type non supporte.">>)]>>]_vars

\* C16 witness: an unparseable frame from an open connection that shares its
\* room with another open connection produced one notice, to the sender.
C16_Witness ==
  /\ lastEvent.kind = "message"
  /\ lastEvent.frame.json = "garbage"
  /\ Len(sent) = 1
  /\ sent[1].to = lastEvent.conn
  /\ sent[1].msg.type = "system"
  /\ \E d \in Members(room[lastEvent.conn]) :
       d # lastEvent.conn /\ readyState[d] = "OPEN"

\* A frame of a recognized type whose body lacks its string field.
MalformedBody(f) ==
  /\ f.json = "object"
  /\ \/ f.type \in {"join-room", "leave-room"} /\ f.room = Undefined
     \/ f.type = "chat" /\ f.text = Undefined

\* C17 as stated: a recognized type with a malformed body is not fatal: the
\* server keeps running and an open sender is sent a system notice.
C17_MalformedBodyNonFatal ==
  (lastEvent.kind = "message" /\ MalformedBody(lastEvent.frame)) =>
    /\ ~crashed
    /\ readyState[lastEvent.conn] = "OPEN" =>
         SentAt(sent, lastEvent.conn, "system") # {}

\* C19: an attached connection always has an identity, the non-empty
\* username of the verified token it attached with; no event changes it while
\* the connection stays attached; a set-nick or leave frame changes no
\* identity, membership or room and sends only the unsupported-type notice,
\* to the sender.
C19_IdentifiedForLife ==
  [][\A c \in Conns :
       /\ attached'[c] => username'[c] \in Users /\ username'[c] # <<>>
       /\ (attached[c] /\ attached'[c]) => username'[c] = username[c]
       /\ \A token \in Tokens :
            (Connect(c, token) /\ attached'[c]) =>
              token.verifies /\ username'[c] = token.username
       /\ (lastEvent'.conn = c /\
           (IsMessage(lastEvent', "set-nick") \/ IsMessage(lastEvent', "leave"))) =>
            /\ username' = username /\ room' = room /\ rooms' = rooms
            /\ \A i \in 1..Len(sent') :
                 sent'[i] = [to |-> c, msg |-> System(<<"Type non supporte.">>)]]_vars

\* C19 witness: a connection identified as Beatrice has sent set-nick with
\* the nick Raphael, has been answered with a notice and is still Beatrice.
C19_Witness ==
  /\ IsMessage(lastEvent, "set-nick")
  /\ lastEvent.frame.nick = Raphael
  /\ attached[lastEvent.conn]
  /\ username[lastEvent.conn] = Beatrice
  /\ SentAt(sent, lastEvent.conn, "system") # {}

\* An accepted chat or a typing frame: an event that broadcasts to the
\* sender's room and does nothing else.
RoomBroadcast(e) ==
  \/ IsMessage(e, "typing")
  \/ IsMessage(e, "chat") /\ e.frame.text # Undefined /\ trim(e.frame.text) # <<>>

\* C20: every delivery of an event goes to a connection whose transport is
\* open when the handler sends; a chat or typing broadcast in a room that
\* still holds non-open members raises no error, changes no state and still
\* reaches every open member it is meant for; a change of the room directory
\* still reaches every open client with the room-list.
C20_DeliverOnlyToOpen ==
  [][/\ \A i \in 1..Len(sent') : readyState'[sent'[i].to] = "OPEN"
     /\ \A c \in Conns :
          (lastEvent'.conn = c /\ RoomBroadcast(lastEvent')) =>
            /\ ~crashed'
            /\ rooms' = rooms /\ room' = room /\ username' = username
            /\ clients' = clients /\ readyState' = readyState
            /\ \A d \in Members(room[c]) :
                 (readyState[d] = "OPEN" /\ (IsMessage(lastEvent', "chat") \/ d # c)) =>
                   SentAt(sent', d, lastEvent'.frame.type) # {}
     /\ (DOMAIN rooms' # DOMAIN rooms) =>
          \A d \in Range(clients') :
            readyState'[d] = "OPEN" => SentAt(sent', d, "room-list") # {}]_vars

\* C20 witness: a chat was accepted in a room one of whose members is no
\* longer open; that member got nothing and another open member got the chat.
C20_Witness ==
  /\ ChatAccepted
  /\ \E d \in Members(room[lastEvent.conn]) :
       readyState[d] = "CLOSING" /\ Inbox(sent, d) = <<>>
  /\ \E d \in Members(room[lastEvent.conn]) :
       d # lastEvent.conn /\ readyState[d] = "OPEN" /\ SentAt(sent, d, "chat") # {}

\* C21: for every raw room name the server's normalizeRoomName and the two
\* clients' normalizeRoomName agree: the server returns null exactly when the
\* clients return the empty string, otherwise all three return the same name;
\* a normalized name is a fixed point of all three, so a submitted draft
\* reaches the server as the name the server would have made of the draft
\* and the server keeps it as it is.
C21_NormalizeReproducible ==
  LET raw == submission.roomDraft
      server == normalizeRoomName(raw)
      token == tokenClient_normalizeRoomName(raw)
      nick == nickClient_normalizeRoomName(raw)
  IN  /\ token = nick
      /\ (server = Null) <=> (token = <<>>)
      /\ server # Null =>
           /\ server = token
           /\ normalizeRoomName(server) = server
           /\ tokenClient_normalizeRoomName(server) = server
           /\ nickClient_normalizeRoomName(server) = server
      /\ submission.step = "ignored" => server = Null
      /\ submission.step \in {"sent", "joined"} => submission.wire = server
      /\ submission.step = "joined" => submission.serverRoom = submission.wire
      /\ submission.step # "rejected"

\* C21 witness: the draft "A a" went out as #a-a and the server joined #a-a.
C21_Witness ==
  /\ submission.step = "joined"
  /\ submission.roomDraft = <<"A", " ", "a">>
  /\ submission.wire = <<"#", "a", "-", "a">>
  /\ submission.serverRoom = <<"#", "a", "-", "a">>

\* The kinds of the messages of one inbox, in order.
Kinds(inbox) == [i \in 1..Len(inbox) |-> inbox[i].msg.type]

\* Stage of the i-th send of a move of c from P to N: leave notice, user-list
\* of P, room-current, the requester's own user-list of N, join notice,
\* user-list of N for the room, room-list.
MoveStage(log, i, c, P, N) ==
  LET e == log[i]
  IN  CASE e.msg = System(LeftText(username[c], P)) -> 1
        [] e.msg.type = "user-list" /\ e.msg.room = P -> 2
        [] e.msg.type = "room-current" -> 3
        [] e.msg.type = "user-list" /\ e.msg.room = N ->
             IF e.to = c /\ ~\E j \in 1..(i - 1) :
                              log[j].to = c /\ log[j].msg.type = "user-list"
             THEN 4 ELSE 6
        [] e.msg = System(JoinedText(username[c], N)) -> 5
        [] e.msg.type = "room-list" -> 7
        [] OTHER -> 0

\* C22: a join-room that moves c from room P to another room N removes c
\* from P, adds it to N, and sends, in this order: the leave notice and then
\* the user-list of P to P's remaining members; room-current N and the
\* user-list of N to c; the join notice and then the user-list of N to the
\* members of N, c included; the room-list to every open connection, showing
\* N and showing P only if P is the default room or still has members.  c is
\* not sent the leave notice.  (Only open transports receive.)
C22_MoveSequence ==
  [][\A c \in Conns :
       JoinMoves(c) =>
         LET P == room[c]
             N == normalizeRoomName(lastEvent'.frame.room)
             remaining == Members(P) \ {c}
             log == sent'
         IN  /\ room'[c] = N
             /\ MembersAfter(P) = remaining
             /\ MembersAfter(N) = Members(N) \cup {c}
             /\ P \in DOMAIN rooms' <=> (P = DEFAULT_ROOM \/ remaining # {})
             /\ \A i \in 1..Len(log) : MoveStage(log, i, c, P, N) # 0
             /\ \A i, j \in 1..Len(log) :
                  i < j => MoveStage(log, i, c, P, N) <= MoveStage(log, j, c, P, N)
             /\ \A i \in 1..Len(log) :
                  /\ log[i].msg.type = "room-current" =>
                       log[i].to = c /\ log[i].msg.room = N
                  /\ log[i].msg.type = "room-list" =>
                       Range(log[i].msg.rooms) = DOMAIN rooms'
                  /\ log[i].msg.type = "user-list" =>
                       \A u \in Users :
                         Count(log[i].msg.users, u) =
                           Cardinality({d \in MembersAfter(log[i].msg.room) :
                                          username[d] = u})
             /\ \A d \in Conns :
                  Kinds(Inbox(log, d)) =
                    IF readyState[d] # "OPEN" THEN <<>>
                    ELSE IF d = c
                         THEN <<"room-current", "user-list", "system", "user-list",
                                "room-list">>
                    ELSE IF d \in remaining \cup Members(N)
                         THEN <<"system", "user-list", "room-list">>
                    ELSE <<"room-list">>
             /\ \A d \in remaining : \A i \in 1..Len(Inbox(log, d)) :
                  Inbox(log, d)[i].msg.type = "system" =>
                    Inbox(log, d)[i].msg = System(LeftText(username[c], P))
             /\ \A d \in Members(N) \cup {c} : \A i \in 1..Len(Inbox(log, d)) :
                  Inbox(log, d)[i].msg.type = "system" =>
                    Inbox(log, d)[i].msg = System(JoinedText(username[c], N))]_vars

\* C22 witness: a connection moved out of a room where an open member stays
\* into a room that already had an open member; the first received the leave
\* sequence, the second the join sequence, the requester its five messages.
C22_Witness ==
  /\ IsMessage(lastEvent, "join-room")
  /\ Kinds(Inbox(sent, lastEvent.conn)) =
       <<"room-current", "user-list", "system", "user-list", "room-list">>
  /\ \E d \in Conns : \E r \in DOMAIN rooms \ {room[lastEvent.conn]} :
       /\ Inbox(sent, d) # <<>>
       /\ Inbox(sent, d)[1].msg = System(LeftText(username[lastEvent.conn], r))
  /\ \E d \in Members(room[lastEvent.conn]) \ {lastEvent.conn} :
       /\ Inbox(sent, d) # <<>>
       /\ Inbox(sent, d)[1].msg =
            System(JoinedText(username[lastEvent.conn], room[lastEvent.conn]))

\* C23: leave-room naming the caller's current room, when that room is not
\* the default room, leaves the server in the state, and sends the messages
\* in the order, that a join-room for the default room handled in the same
\* state would; the caller ends in the default room.
C23_LeaveIsJoinDefault ==
  [][\A c \in Conns :
       (/\ IsMessage(lastEvent', "leave-room")
        /\ lastEvent'.conn = c
        /\ lastEvent'.frame.room # Undefined
        /\ normalizeRoomName(lastEvent'.frame.room) = room[c]
        /\ room[c] # DEFAULT_ROOM) =>
         /\ room'[c] = DEFAULT_ROOM
         /\ c \in MembersAfter(DEFAULT_ROOM)
         /\ \A raw \in RawRooms :
              normalizeRoomName(raw) = DEFAULT_ROOM =>
                LET join == onJoinRoom(Current, c,
                              Frame("object", "join-room", raw, Undefined, Undefined))
                IN  /\ rooms' = join.rooms
                    /\ clients' = join.clients
                    /\ readyState' = join.readyState
                    /\ username' = join.username
                    /\ room' = join.room
                    /\ sent' = join.out
                    /\ crashed' = join.threw]_vars

\* C23 witness: a connection that shared a non-default room with an open
\* member has left it by leave-room and is back in the default room; the
\* member it left behind got the leave notice.
C23_Witness ==
  /\ IsMessage(lastEvent, "leave-room")
  /\ lastEvent.frame.room # Undefined
  /\ normalizeRoomName(lastEvent.frame.room) \notin {Null, DEFAULT_ROOM}
  /\ room[lastEvent.conn] = DEFAULT_ROOM
  /\ SentAt(sent, lastEvent.conn, "room-current") # {}
  /\ \E d \in Members(normalizeRoomName(lastEvent.frame.room)) :
       /\ Inbox(sent, d) # <<>>
       /\ Inbox(sent, d)[1].msg =
            System(LeftText(username[lastEvent.conn],
                            normalizeRoomName(lastEvent.frame.room)))

\* A frame whose body is well formed but violates the precondition of its
\* type: a chat with nothing left after trimming, a join-room whose name
\* normalizes to nothing.
EmptyChat(f) ==
  f.json = "object" /\ f.type = "chat" /\ f.text # Undefined /\ trim(f.text) = <<>>
InvalidJoin(f) ==
  /\ f.json = "object" /\ f.type = "join-room"
  /\ f.room # Undefined /\ normalizeRoomName(f.room) = Null

\* C24 as stated: after a chat that is empty once trimmed, or a join-room
\* whose name is invalid once normalized, no chat has been broadcast, every
\* send of the handler went to the offending connection, and that
\* connection, when open, was sent a system notice.
C24_ViolationNoticed ==
  (lastEvent.kind = "message" /\
   (EmptyChat(lastEvent.frame) \/ InvalidJoin(lastEvent.frame))) =>
    /\ ~crashed
    /\ \A i \in 1..Len(sent) :
         sent[i].to = lastEvent.conn /\ sent[i].msg.type # "chat"
    /\ readyState[lastEvent.conn] = "OPEN" =>
         SentAt(sent, lastEvent.conn, "system") # {}

\* The last message of type t that the log delivers to c.
LastOf(log, c, t) ==
  log[CHOOSE i \in SentAt(log, c, t) : \A j \in SentAt(log, c, t) : j <= i]

\* C25: the most recent user-list delivered to an attached, open connection
\* names its current room and lists exactly the identities of that room's
\* members.  Stated as the step that keeps it true: after every event, such
\* a connection either received a user-list in this event, and the last one
\* names its room and the identities of the room's members as they now are,
\* or it was attached before, is in the same room, and that room has the
\* same members with the same identities as before the event.
C25_UserListCurrent ==
  [][\A c \in Conns :
       (attached'[c] /\ readyState'[c] = "OPEN") =>
         IF SentAt(sent', c, "user-list") # {}
         THEN LET last == LastOf(sent', c, "user-list").msg
              IN  /\ last.room = room'[c]
                  /\ Range(last.users) = {username'[d] : d \in MembersAfter(room'[c])}
         ELSE /\ attached[c]
              /\ room'[c] = room[c]
              /\ MembersAfter(room[c]) = Members(room[c])
              /\ \A d \in Members(room[c]) : username'[d] = username[d]]_vars

\* C25 witness: a member of a room has closed and an open member that stays
\* has received a user-list that names the room and exactly the identities
\* left in it; two members of one identity are left.
C25_Witness ==
  /\ lastEvent.kind = "close"
  /\ closeCode[lastEvent.conn] = 0
  /\ \E c \in Conns :
       /\ attached[c] /\ readyState[c] = "OPEN"
       /\ SentAt(sent, c, "user-list") # {}
       /\ LastOf(sent, c, "user-list").msg.room = room[c]
       /\ Range(LastOf(sent, c, "user-list").msg.users) =
            {username[d] : d \in Members(room[c])}
       /\ Cardinality(Members(room[c])) = 2
       /\ Cardinality({username[d] : d \in Members(room[c])}) = 1

\* C26: the most recent room-list delivered to an attached, open connection
\* is the current list of rooms.  Stated as the step that keeps it true:
\* after every event, such a connection either received a room-list in this
\* event, and the last one is the list of the rooms as they now are, each
\* room once, or it was attached before and the set of rooms is the same as
\* before the event.
C26_RoomListCurrent ==
  [][\A c \in Conns :
       (attached'[c] /\ readyState'[c] = "OPEN") =>
         IF SentAt(sent', c, "room-list") # {}
         THEN LET last == LastOf(sent', c, "room-list").msg
              IN  /\ Range(last.rooms) = DOMAIN rooms'
                  /\ NoDuplicates(last.rooms)
                  /\ last.rooms = getRoomsList([rooms |-> rooms'])
         ELSE /\ attached[c]
              /\ DOMAIN rooms' = DOMAIN rooms]_vars

\* C26 witness: a join-room created a room and an open connection that
\* stayed where it was has received a room-list that shows the new room.
C26_Witness ==
  /\ IsMessage(lastEvent, "join-room")
  /\ NewRoom \in DOMAIN rooms
  /\ Members(NewRoom) = {lastEvent.conn}
  /\ \E c \in Members(DEFAULT_ROOM) :
       /\ attached[c] /\ readyState[c] = "OPEN"
       /\ SentAt(sent, c, "room-list") # {}
       /\ Range(LastOf(sent, c, "room-list").msg.rooms) = DOMAIN rooms

\* C27: handling a chat or a typing frame, whatever its body, leaves the
\* rooms, every room's members, and every connection's room and identity as
\* they were, and sends only chat or typing messages: no user-list, no
\* room-list, no room-current.
C27_ChatTypingStateless ==
  [][(IsMessage(lastEvent', "chat") \/ IsMessage(lastEvent', "typing")) =>
       /\ rooms' = rooms
       /\ room' = room
       /\ username' = username
       /\ clients' = clients
       /\ attached' = attached
       /\ \A i \in 1..Len(sent') : sent'[i].msg.type = lastEvent'.frame.type]_vars

\* C27 witness: a typing frame from a connection that had moved to another
\* room reached an open member of that room.
C27_Witness ==
  /\ IsMessage(lastEvent, "typing")
  /\ room[lastEvent.conn] # DEFAULT_ROOM
  /\ \E d \in Members(room[lastEvent.conn]) \ {lastEvent.conn} :
       SentAt(sent, d, "typing") # {}

\* C28: every user-list has one entry per member connection of its room as
\* the room is when the list is computed, which in every handler is after
\* the handler's last change to that room: its length is the number of
\* members, and each identity occurs as many times as there are members
\* with it, twice for two connections of one identity, and at least once as
\* long as one of them is a member.
C28_UserListPerConnection ==
  [][\A i \in 1..Len(sent') :
       sent'[i].msg.type = "user-list" =>
         LET users == sent'[i].msg.users
             members == MembersAfter(sent'[i].msg.room)
         IN  /\ Len(users) = Cardinality(members)
             /\ Range(users) \subseteq Users
             /\ \A u \in Users :
                  Count(users, u) = Cardinality({d \in members : username'[d] = u})]_vars

\* C28 witness: a third connection attached to the default room under the
\* identity of one of the two members; the user-list it was sent has three
\* entries, that identity twice.
C28_Witness ==
  /\ lastEvent.kind = "connection"
  /\ attached[lastEvent.conn]
  /\ Cardinality(Members(DEFAULT_ROOM)) = 3
  /\ \E i \in SentAt(sent, lastEvent.conn, "user-list") :
       /\ Len(sent[i].msg.users) = 3
       /\ Count(sent[i].msg.users, username[lastEvent.conn]) = 2

====
